---- MODULE Spec2Model ----
(***************************************************************************)
(* Temporary-file registry and reaper of markdown-converter-ui.            *)
(*                                                                         *)
(* State: the wall clock, the backing directory TEMP_DIR (disk), the       *)
(* process-wide dict temp_files, and the position and locals of every      *)
(* thread that touches them: the script threads running process_file and   *)
(* save_uploaded_file, the daemon threads running cleanup_expired_files, a *)
(* caller of manual_cleanup and a caller of is_file_expired.  Threads      *)
(* interleave at the granularity of the statements that read or write the  *)
(* shared dict or the directory.  A filesystem call that can raise has a   *)
(* branch for the raise, which goes where the handler in the code goes.    *)
(* render_markdown, which touches none of this, runs line by line on its   *)
(* own locals.                                                             *)
(*                                                                         *)
(* Time is in whole seconds.  A path is <<unique_id, file_ext>>: the file  *)
(* TEMP_DIR/<unique_id><file_ext>.  A payload is identified with its       *)
(* length; a file's content is [of |-> payload, n |-> bytes on disk].      *)
(***************************************************************************)
EXTENDS Integers, Sequences, FiniteSets, TLC

\* ---------------------------------------------------------------- config.py
MAX_FILE_SIZE_MB == 50
FILE_EXPIRY_HOURS == 2
ACCEPTED_FILE_TYPES ==
    << <<"d", "o", "c", "x">>, <<"h", "t", "m", "l">>, <<"p", "d", "f">>,
       <<"t", "x", "t">>, <<"m", "d">>, <<"r", "t", "f">> >>

\* file_helpers.py:68  MAX_FILE_SIZE_MB * 1024 * 1024
MaxBytes == MAX_FILE_SIZE_MB * 1024 * 1024
\* cleanup.py:27  FILE_EXPIRY_HOURS * 3600
ExpirySeconds == FILE_EXPIRY_HOURS * 3600
\* cleanup.py:47  time.sleep(15 * 60)
SleepSeconds == 15 * 60

\* ------------------------------------------------------------------ bounds
\* how many one-second steps the clock takes inside one expiry window
MaxUnitTicks == 1
\* how many whole expiry windows the clock advances
MaxWindowTicks == 1
\* how many unique ids uuid4 hands out (accepted saves)
MaxSaves == 2
\* how many files appear in TEMP_DIR without save_uploaded_file
MaxForeign == 1
\* how many lines the text given to render_markdown has at most
MaxLines == 4

\* ------------------------------------------------------------ input domains
None == <<>>
Savers == {"script1", "script2"}
Reaper == "reaper"
Manual == "manual"
\* the daemon threads start_cleanup_thread can create: the one of the first
\* run of the script, and the one of a later run
Reapers == {Reaper, "reaper2"}
Cleaners == Reapers \cup {Manual}

\* uploaded_file.getvalue(): payloads just inside, on and over the limit
Payloads == {MaxBytes - 1, MaxBytes, MaxBytes + 1, MaxBytes + 64 * 1024}
\* uploaded_file.name, as a sequence of characters
PlainName == <<"a", ".", "m", "d">>
Names == { PlainName, <<".", ".", "/", "b">> }
UpperName == <<"a", ".", "M", "D">>
\* file.name of the uploads process_file is given: an accepted extension in
\* lower and in upper case, one that is not accepted, and no extension
UploadNames == { PlainName, UpperName, <<"a", ".", "e", "x", "e">>, <<"m", "d">> }
\* names a client can send: separators, "..", dots in a directory part,
\* a leading dot, two extensions
HostileNames ==
    { <<".", ".", "/", "b">>,
      <<".", ".", "/", "a", ".", "m", "d">>,
      <<"a", ".", "b", "/", "c">>,
      <<"/", ".", "m", "d">>,
      <<"a", ".", "b", ".", "m", "d">>,
      <<"a", ".", ".", "/", ".", ".">> }

\* ------------------------------------------------------- library functions
\* str.rfind(ch): 0 when absent (1-based indices)
RFind(s, ch) ==
    LET hits == {i \in 1..Len(s) : s[i] = ch}
    IN  IF hits = {} THEN 0 ELSE CHOOSE i \in hits : \A j \in hits : j <= i

\* the whole name taken for the extension
NameAsExtension(name) == name

\* os.path.splitext(name)[1]: the text from the last dot of the last path
\* component, unless that component has only dots before it
splitext_ext(name) ==
    LET sepIndex == RFind(name, "/")
        dotIndex == RFind(name, ".")
    IN  IF /\ dotIndex > sepIndex
           /\ \E k \in (sepIndex + 1)..(dotIndex - 1) : name[k] # "."
        THEN SubSeq(name, dotIndex, Len(name))
        ELSE <<>>

\* str.lower(), on the letters the names are written in
UpperCase == <<"A", "B", "C", "D", "E", "F", "G", "H", "I", "J", "K", "L", "M",
               "N", "O", "P", "Q", "R", "S", "T", "U", "V", "W", "X", "Y", "Z">>
LowerCase == <<"a", "b", "c", "d", "e", "f", "g", "h", "i", "j", "k", "l", "m",
               "n", "o", "p", "q", "r", "s", "t", "u", "v", "w", "x", "y", "z">>
Lower(s) ==
    [i \in 1..Len(s) |->
        IF \E k \in 1..Len(UpperCase) : UpperCase[k] = s[i]
        THEN LowerCase[CHOOSE k \in 1..Len(UpperCase) : UpperCase[k] = s[i]]
        ELSE s[i]]

\* str.lstrip(ch): without the leading run of ch
LStrip(s, ch) ==
    LET others == {i \in 1..Len(s) : s[i] # ch}
    IN  IF others = {} THEN <<>>
        ELSE SubSeq(s, CHOOSE i \in others : \A j \in others : i <= j, Len(s))

\* megabytes in tenths, cut off instead of rounded
FormatMBTruncating(size) == (size * 10) \div (1024 * 1024)

\* f"{x / (1024 * 1024):.1f}": megabytes in tenths, rounded half to even
FormatMB(size) ==
    LET q == (size * 10) \div (1024 * 1024)
        r == (size * 10) % (1024 * 1024)
    IN  IF 2 * r > 1024 * 1024 THEN q + 1
        ELSE IF 2 * r = 1024 * 1024 /\ q % 2 = 1 THEN q + 1
        ELSE q

\* ---------------------------------------------- temp_files: an ordered dict
Keys(d) == {d[i].path : i \in 1..Len(d)}
Lookup(d, p) == d[CHOOSE i \in 1..Len(d) : d[i].path = p].time
\* temp_files[p] = t
SetItem(d, p, t) ==
    IF p \in Keys(d)
    THEN [i \in 1..Len(d) |-> IF d[i].path = p THEN [path |-> p, time |-> t] ELSE d[i]]
    ELSE Append(d, [path |-> p, time |-> t])
\* a pop that leaves the dict as it is
PopNothing(d, p) == d

\* temp_files.pop(p, None)
Pop(d, p) == SelectSeq(d, LAMBDA e : e.path # p)

Range(s) == {s[i] : i \in 1..Len(s)}

\* ------------------------------------------------------------------- state
VARIABLES
    now,              \* datetime.datetime.now(), in seconds
    disk,             \* TEMP_DIR: path -> [content, mtime]
    temp_files,       \* config.temp_files: sequence of [path, time]
    uuid_count,       \* number of ids uuid4 has handed out
    spc,              \* saver -> position in process_file / save_uploaded_file
    uploaded_file,    \* saver -> [name, value] of the call in progress
    temp_file_path,   \* saver -> the path the call computed
    sret,             \* saver -> value returned by the last call
    st_error,         \* saver -> message the last call passed to st.error
    saved_at,         \* saver -> time the last call registered (history)
    cpc,              \* cleaner -> position in its sweep
    current_time,     \* cleaner -> reference time of the sweep
    items,            \* cleaner -> list(temp_files.items()) of the sweep
    idx,              \* cleaner -> position in items
    files_to_remove,  \* cleaner -> files_to_remove
    popped,           \* cleaner -> entries of files_to_remove already popped
    listing,          \* cleaner -> rest of TEMP_DIR.glob("*")
    file_path,        \* cleaner -> file under examination in the untracked pass
    attempted,        \* cleaner -> paths this sweep called unlink on (history)
    wake,             \* cleaner -> earliest time time.sleep returns
    cret,             \* value returned by the last manual_cleanup
    expiry,           \* FILE_EXPIRY_HOURS * 3600 as the running process has it
    echeck,           \* the call of is_file_expired in progress
    removed,          \* paths the last manual_cleanup unlinked (history)
    run,              \* manual_cleanup calls with nothing between them:
                      \* for each, whether a filesystem call raised and
                      \* the value returned (history)
    render            \* the call of render_markdown in progress: its locals
                      \* and what it has passed to st.markdown and st.code

svars == <<spc, uploaded_file, temp_file_path, sret, st_error, saved_at>>
cvars == <<cpc, current_time, items, idx, files_to_remove, popped, listing,
           file_path, attempted, wake, cret>>
hvars == <<removed, run>>
vars == <<now, disk, temp_files, uuid_count, svars, cvars, expiry, echeck, hvars,
          render>>

NoUpload == [name |-> <<>>, value |-> 0]
NoMessage == [kind |-> "none", limit |-> 0, actual |-> 0]
NoCheck == [pc |-> "idle", file_path |-> None, expiry_hours |-> None,
            ret |-> FALSE, logged |-> FALSE]
NoRender == [pc |-> "idle", lines |-> <<>>, i |-> 0, in_code_block |-> FALSE,
             code_block_content |-> <<>>, language |-> <<>>, current_text |-> <<>>,
             out |-> <<>>, ret |-> FALSE]

\* the process as it starts, but for the expiry window
Start ==
    /\ now = 0
    /\ disk = <<>>
    /\ temp_files = <<>>
    /\ uuid_count = 0
    /\ spc = [s \in Savers |-> "idle"]
    /\ uploaded_file = [s \in Savers |-> NoUpload]
    /\ temp_file_path = [s \in Savers |-> None]
    /\ sret = [s \in Savers |-> None]
    /\ st_error = [s \in Savers |-> NoMessage]
    /\ saved_at = [s \in Savers |-> 0]
    /\ cpc = [c \in Cleaners |-> IF c \in {Reaper, Manual} THEN "idle" ELSE "unstarted"]
    /\ current_time = [c \in Cleaners |-> 0]
    /\ items = [c \in Cleaners |-> <<>>]
    /\ idx = [c \in Cleaners |-> 0]
    /\ files_to_remove = [c \in Cleaners |-> <<>>]
    /\ popped = [c \in Cleaners |-> 0]
    /\ listing = [c \in Cleaners |-> {}]
    /\ file_path = [c \in Cleaners |-> None]
    /\ attempted = [c \in Cleaners |-> {}]
    /\ wake = [c \in Cleaners |-> 0]
    /\ cret = 0
    /\ echeck = NoCheck
    /\ removed = {}
    /\ run = <<>>
    /\ render = NoRender

\* config.py:17  the window is FILE_EXPIRY_HOURS
Init == Start /\ expiry = ExpirySeconds

\* -------------------------------------------------------------- directory
Files == DOMAIN disk
Exists(p) == p \in Files
\* the directory with file p created or rewritten
WriteFile(d, p, content, t) ==
    [q \in (DOMAIN d) \cup {p} |->
        IF q = p THEN [content |-> content, mtime |-> t] ELSE d[q]]
\* the directory with file p unlinked
Unlink(d, p) == [q \in (DOMAIN d) \ {p} |-> d[q]]

\* ---------------------------------------------------------------- history
\* a step of anything but manual_cleanup ends the run of manual_cleanup calls
Elsewhere ==
    /\ run' = <<>>
    /\ UNCHANGED <<expiry, echeck, removed, render>>

\* a step of the sweep of c; failed: a filesystem call of the step raised
Observed(c, failed) ==
    /\ UNCHANGED <<expiry, echeck, render>>
    /\ IF c = Manual
       THEN /\ removed' = (IF cpc[c] = "idle" THEN {} ELSE removed)
                              \cup (Files \ DOMAIN disk')
            /\ run' = IF cpc[c] = "idle"
                      THEN Append(IF Len(run) = 2 THEN Tail(run) ELSE run,
                                  [failed |-> FALSE, ret |-> 0])
                      ELSE IF run = <<>>
                           THEN run
                           ELSE [run EXCEPT ![Len(run)] =
                                   [failed |-> @.failed \/ failed,
                                    ret |-> IF cpc'[c] = "idle" THEN cret' ELSE @.ret]]
       ELSE /\ run' = <<>>
            /\ UNCHANGED removed

\* -------------------------------------------------------------------- clock
TickSecond ==
    /\ now % ExpirySeconds < MaxUnitTicks
    /\ now' = now + 1
    /\ UNCHANGED <<disk, temp_files, uuid_count, svars, cvars>>
    /\ Elsewhere

TickWindow ==
    /\ now \div ExpirySeconds < MaxWindowTicks
    /\ now' = now + ExpirySeconds
    /\ UNCHANGED <<disk, temp_files, uuid_count, svars, cvars>>
    /\ Elsewhere

\* ------------------------------------------------------ save_uploaded_file
\* the size test done on whole megabytes
OverLimitWholeMB(file_size) == file_size \div (1024 * 1024) > MAX_FILE_SIZE_MB
\* the size test with the limit itself refused
OverLimitInclusive(file_size) == file_size >= MaxBytes

\* file_helpers.py:68  the size test
OverLimit(file_size) == file_size > MaxBytes

\* an id generator that repeats itself
uuid4Repeating(count) == 1

\* file_helpers.py:73  str(uuid.uuid4()): an id no earlier call was given
uuid4(count) == count + 1

\* file_helpers.py:74-76  the path of the scratch file
TempPath(unique_id, name) == <<unique_id, splitext_ext(name)>>

\* file_helpers.py:67-76  size check, then the unique path
SaveBegin(s, name, value) ==
    /\ spc[s] = "idle"
    /\ uploaded_file' = [uploaded_file EXCEPT ![s] = [name |-> name, value |-> value]]
    /\ IF OverLimit(value)
       THEN /\ st_error' = [st_error EXCEPT ![s] =
                   [kind |-> "size", limit |-> MAX_FILE_SIZE_MB, actual |-> FormatMB(value)]]
            /\ sret' = [sret EXCEPT ![s] = None]
            /\ spc' = [spc EXCEPT ![s] = "returned"]
            /\ temp_file_path' = [temp_file_path EXCEPT ![s] = None]
            /\ UNCHANGED uuid_count
       ELSE /\ uuid_count < MaxSaves
            /\ uuid_count' = uuid_count + 1
            /\ temp_file_path' = [temp_file_path EXCEPT ![s] = TempPath(uuid4(uuid_count), name)]
            /\ spc' = [spc EXCEPT ![s] = "open"]
            /\ st_error' = [st_error EXCEPT ![s] = NoMessage]
            /\ sret' = [sret EXCEPT ![s] = None]
    /\ UNCHANGED <<now, disk, temp_files, saved_at, cvars>>
    /\ Elsewhere

\* an exception of open or write that no handler takes: the caller gets it
SaveFailedUncaught(s) ==
    /\ spc' = [spc EXCEPT ![s] = "raised"]
    /\ UNCHANGED <<sret, st_error>>

\* file_helpers.py:87-90  the except branch
SaveFailed(s) ==
    /\ st_error' = [st_error EXCEPT ![s] = [kind |-> "io", limit |-> 0, actual |-> 0]]
    /\ sret' = [sret EXCEPT ![s] = None]
    /\ spc' = [spc EXCEPT ![s] = "returned"]

\* file_helpers.py:79  open(temp_file_path, 'wb'): creates the file empty
SaveOpen(s) ==
    /\ spc[s] = "open"
    /\ \/ /\ disk' = WriteFile(disk, temp_file_path[s],
                               [of |-> uploaded_file[s].value, n |-> 0], now)
          /\ spc' = [spc EXCEPT ![s] = "write"]
          /\ UNCHANGED <<sret, st_error>>
       \/ /\ SaveFailed(s)
          /\ UNCHANGED disk
    /\ UNCHANGED <<now, temp_files, uuid_count, uploaded_file, temp_file_path,
                   saved_at, cvars>>
    /\ Elsewhere

\* what f.write(uploaded_file.getvalue()) leaves in the file
Written(value) == [of |-> value, n |-> value]

\* file_helpers.py:80  f.write: all the bytes, or an error with none flushed.
\* The descriptor stays valid when the name was unlinked meanwhile: the
\* bytes then go to a file the directory no longer lists.
SaveWrite(s) ==
    /\ spc[s] = "write"
    /\ \/ /\ disk' = IF Exists(temp_file_path[s])
                     THEN WriteFile(disk, temp_file_path[s],
                                    Written(uploaded_file[s].value), now)
                     ELSE disk
          /\ spc' = [spc EXCEPT ![s] = "track"]
          /\ UNCHANGED <<sret, st_error>>
       \/ /\ SaveFailed(s)
          /\ UNCHANGED disk
    /\ UNCHANGED <<now, temp_files, uuid_count, uploaded_file, temp_file_path,
                   saved_at, cvars>>
    /\ Elsewhere

\* file_helpers.py:83-86  temp_files[temp_file_path] = now(); return the path
SaveTrack(s) ==
    /\ spc[s] = "track"
    /\ temp_files' = SetItem(temp_files, temp_file_path[s], now)
    /\ saved_at' = [saved_at EXCEPT ![s] = now]
    /\ sret' = [sret EXCEPT ![s] = temp_file_path[s]]
    /\ spc' = [spc EXCEPT ![s] = "returned"]
    /\ UNCHANGED <<now, disk, uuid_count, uploaded_file, temp_file_path,
                   st_error, cvars>>
    /\ Elsewhere

\* the caller takes the result; the thread is free for the next upload
SaveDone(s) ==
    /\ spc[s] = "returned"
    /\ spc' = [spc EXCEPT ![s] = "idle"]
    /\ uploaded_file' = [uploaded_file EXCEPT ![s] = NoUpload]
    /\ temp_file_path' = [temp_file_path EXCEPT ![s] = None]
    /\ sret' = [sret EXCEPT ![s] = None]
    /\ st_error' = [st_error EXCEPT ![s] = NoMessage]
    /\ saved_at' = [saved_at EXCEPT ![s] = 0]
    /\ UNCHANGED <<now, disk, temp_files, uuid_count, cvars>>
    /\ Elsewhere

\* the script threads S serving uploads with the given names and payloads
Uploads(S, names, values) ==
    \E s \in S :
        \/ \E name \in names, value \in values : SaveBegin(s, name, value)
        \/ SaveOpen(s)
        \/ SaveWrite(s)
        \/ SaveTrack(s)
        \/ SaveDone(s)

\* ------------------------------------------------------------ process_file
\* a type test that lets every name through
validate_any_type(file_name, accepted_types) == TRUE

\* file_helpers.py:93-105  the extension, lower-cased and without its dot,
\* is one of the accepted types
validate_file_type(file_name, accepted_types) ==
    LStrip(Lower(splitext_ext(file_name)), ".") \in Range(accepted_types)

\* markdown_content of a conversion that worked: empty or not
Markdown == {<<>>, <<"#">>}

\* main.py:27-43  type test, size test, then the call of save_uploaded_file,
\* which begins with its own size test and the unique path
ProcessBegin(s, name, value) ==
    IF validate_file_type(name, ACCEPTED_FILE_TYPES) /\ ~(value > MAX_FILE_SIZE_MB * 1024 * 1024)
    THEN SaveBegin(s, name, value)
    ELSE /\ spc[s] = "idle"
         /\ uploaded_file' = [uploaded_file EXCEPT ![s] = [name |-> name, value |-> value]]
         /\ st_error' = [st_error EXCEPT ![s] =
                IF ~validate_file_type(name, ACCEPTED_FILE_TYPES)
                THEN [kind |-> "type", limit |-> 0, actual |-> 0]
                ELSE [kind |-> "size", limit |-> MAX_FILE_SIZE_MB, actual |-> FormatMB(value)]]
         /\ spc' = [spc EXCEPT ![s] = "done"]
         /\ UNCHANGED <<now, disk, temp_files, uuid_count, temp_file_path, sret,
                        saved_at, cvars>>
         /\ Elsewhere

\* main.py:43-45  save_uploaded_file has returned: without a path
\* process_file returns, with one it goes on to the conversion
ProcessSaved(s) ==
    /\ spc[s] = "returned"
    /\ spc' = [spc EXCEPT ![s] = IF sret[s] = None THEN "done" ELSE "convert"]
    /\ UNCHANGED <<now, disk, temp_files, uuid_count, uploaded_file, temp_file_path,
                   sret, st_error, saved_at, cvars>>
    /\ Elsewhere

\* an exception of the conversion that no handler takes
ConvertUncaught(s) ==
    /\ spc' = [spc EXCEPT ![s] = "raised"]
    /\ UNCHANGED st_error

\* markdown_converter.py:66-69, 92-101  every exception of the conversion is
\* logged and None returned; main.py:78-79 reports the failure
ConvertCaught(s) ==
    /\ st_error' = [st_error EXCEPT ![s] = [kind |-> "convert", limit |-> 0, actual |-> 0]]
    /\ spc' = [spc EXCEPT ![s] = "done"]

\* main.py:47-83  convert_to_markdown(temp_file_path) reads the scratch file
\* (markdown_converter.py:39, 62): an exception there, as when the file is
\* gone, is caught and gives None; an empty result counts as a failure
\* (main.py:65, 78-79); an exception while the result is displayed is caught
\* at main.py:81-83
ProcessConvert(s) ==
    /\ spc[s] = "convert"
    /\ \/ /\ Exists(temp_file_path[s])
          /\ \E markdown_content \in Markdown :
                /\ st_error' = [st_error EXCEPT ![s] =
                       IF markdown_content = <<>>
                       THEN [kind |-> "convert", limit |-> 0, actual |-> 0]
                       ELSE NoMessage]
                /\ spc' = [spc EXCEPT ![s] = "done"]
       \/ ConvertCaught(s)
       \/ /\ Exists(temp_file_path[s])
          /\ st_error' = [st_error EXCEPT ![s] = [kind |-> "exception", limit |-> 0, actual |-> 0]]
          /\ spc' = [spc EXCEPT ![s] = "done"]
    /\ UNCHANGED <<now, disk, temp_files, uuid_count, uploaded_file, temp_file_path,
                   sret, saved_at, cvars>>
    /\ Elsewhere

\* main.py:107-108  process_file has returned; the thread is free for the
\* next upload
ProcessDone(s) ==
    /\ spc[s] = "done"
    /\ spc' = [spc EXCEPT ![s] = "idle"]
    /\ uploaded_file' = [uploaded_file EXCEPT ![s] = NoUpload]
    /\ temp_file_path' = [temp_file_path EXCEPT ![s] = None]
    /\ sret' = [sret EXCEPT ![s] = None]
    /\ st_error' = [st_error EXCEPT ![s] = NoMessage]
    /\ saved_at' = [saved_at EXCEPT ![s] = 0]
    /\ UNCHANGED <<now, disk, temp_files, uuid_count, cvars>>
    /\ Elsewhere

\* main.py:15-83  the script threads S running process_file on uploads with
\* the given names and payloads
process_file(S, names, values) ==
    \E s \in S :
        \/ \E name \in names, value \in values : ProcessBegin(s, name, value)
        \/ SaveOpen(s)
        \/ SaveWrite(s)
        \/ SaveTrack(s)
        \/ ProcessSaved(s)
        \/ ProcessConvert(s)
        \/ ProcessDone(s)

\* ------------------------------------- cleanup_expired_files, manual_cleanup
\* the expiry test with the boundary included
ExpiredInclusive(reference, creation_time) == reference - creation_time >= expiry

\* cleanup.py:25-27  time_diff.total_seconds() > FILE_EXPIRY_HOURS * 3600
Expired(reference, creation_time) == reference - creation_time > expiry

\* the first position after i of an entry the sweep finds expired, or 0.
\* The age test reads only the sweep's own snapshot and reference time.
NextExpired(c, snapshot, reference, i) ==
    LET later == {j \in (i + 1)..Len(snapshot) : Expired(reference, snapshot[j].time)}
    IN  IF later = {} THEN 0 ELSE CHOOSE j \in later : \A k \in later : j <= k

\* a sweep that goes to the directory without popping what it listed
AfterLoopUnpopped(remove) == "glob"

\* where the sweep goes once the tracked loop has no further expired entry
AfterLoop(remove) == IF remove = <<>> THEN "glob" ELSE "pop"

\* cleanup.py:20-24 / 121-125  reference time, empty list, snapshot of the dict
BeginSweep(c) ==
    /\ cpc[c] = "idle"
    /\ now >= wake[c]
    /\ LET first == NextExpired(c, temp_files, now, 0)
       IN  /\ idx' = [idx EXCEPT ![c] = first]
           /\ cpc' = [cpc EXCEPT ![c] = IF first = 0 THEN "glob" ELSE "tracked"]
    /\ current_time' = [current_time EXCEPT ![c] = now]
    /\ items' = [items EXCEPT ![c] = temp_files]
    /\ files_to_remove' = [files_to_remove EXCEPT ![c] = <<>>]
    /\ popped' = [popped EXCEPT ![c] = 0]
    /\ attempted' = [attempted EXCEPT ![c] = {}]
    /\ wake' = [wake EXCEPT ![c] = 0]
    /\ UNCHANGED <<now, disk, temp_files, uuid_count, svars, listing, file_path, cret>>
    /\ Observed(c, FALSE)

\* the tracked loop moves to its next expired entry, or leaves the loop
Advance(c, remove) ==
    LET next == NextExpired(c, items[c], current_time[c], idx[c])
    IN  /\ idx' = [idx EXCEPT ![c] = next]
        /\ cpc' = [cpc EXCEPT ![c] = IF next = 0 THEN AfterLoop(remove) ELSE "tracked"]
        /\ files_to_remove' = [files_to_remove EXCEPT ![c] = remove]

\* cleanup.py:29,32 / 129,132  os.path.exists: a missing file is listed for
\* removal without an unlink
TrackedCheck(c) ==
    /\ cpc[c] = "tracked"
    /\ LET p == items[c][idx[c]].path
       IN  IF Exists(p)
           THEN /\ cpc' = [cpc EXCEPT ![c] = "t_unlink"]
                /\ UNCHANGED <<idx, files_to_remove>>
           ELSE Advance(c, Append(files_to_remove[c], p))
    /\ UNCHANGED <<now, disk, temp_files, uuid_count, svars, current_time, items,
                   popped, listing, file_path, attempted, wake, cret>>
    /\ Observed(c, FALSE)

\* an except branch that gives the entry up all the same
OnUnlinkErrorForget(remove, p) == Append(remove, p)

\* files_to_remove after os.unlink of p raised (cleanup.py:33-34 / 133-134)
OnUnlinkError(remove, p) == remove

\* cleanup.py:30-34 / 130-134  os.unlink: the file goes and the path is listed
\* for removal, or unlink raises (file gone meanwhile, permission) and the
\* handler only logs
TrackedUnlink(c) ==
    /\ cpc[c] = "t_unlink"
    /\ LET p == items[c][idx[c]].path
       IN  /\ attempted' = [attempted EXCEPT ![c] = @ \cup {p}]
           /\ \/ /\ Exists(p)
                 /\ disk' = Unlink(disk, p)
                 /\ Advance(c, Append(files_to_remove[c], p))
                 /\ Observed(c, FALSE)
              \/ /\ UNCHANGED disk
                 /\ Advance(c, OnUnlinkError(files_to_remove[c], p))
                 /\ Observed(c, TRUE)
    /\ UNCHANGED <<now, temp_files, uuid_count, svars, current_time, items,
                   popped, listing, file_path, wake, cret>>

\* cleanup.py:37-38 / 137-138  temp_files.pop(file_path, None), one entry
PopEntry(c) ==
    /\ cpc[c] = "pop"
    /\ temp_files' = Pop(temp_files, files_to_remove[c][popped[c] + 1])
    /\ popped' = [popped EXCEPT ![c] = @ + 1]
    /\ cpc' = [cpc EXCEPT ![c] =
                 IF popped[c] + 1 = Len(files_to_remove[c]) THEN "glob" ELSE "pop"]
    /\ UNCHANGED <<now, disk, uuid_count, svars, current_time, items, idx,
                   files_to_remove, listing, file_path, attempted, wake, cret>>
    /\ Observed(c, FALSE)

\* ------------------------------------------------- cleanup_untracked_files
\* the sweep is over: the reaper sleeps (cleanup.py:47), manual_cleanup
\* returns len(files_to_remove) (cleanup.py:143)
EndSweep(c) ==
    /\ cpc' = [cpc EXCEPT ![c] = "idle"]
    /\ wake' = [wake EXCEPT ![c] = IF c \in Reapers THEN now + SleepSeconds ELSE 0]
    /\ cret' = IF c = Manual THEN Len(files_to_remove[c]) ELSE cret
    /\ current_time' = [current_time EXCEPT ![c] = 0]
    /\ items' = [items EXCEPT ![c] = <<>>]
    /\ idx' = [idx EXCEPT ![c] = 0]
    /\ files_to_remove' = [files_to_remove EXCEPT ![c] = <<>>]
    /\ popped' = [popped EXCEPT ![c] = 0]
    /\ listing' = [listing EXCEPT ![c] = {}]
    /\ file_path' = [file_path EXCEPT ![c] = None]
    /\ attempted' = [attempted EXCEPT ![c] = {}]

\* the untracked loop goes on with the rest of the listing, or the pass ends
Continue(c, rest) ==
    IF rest = {}
    THEN EndSweep(c)
    ELSE /\ cpc' = [cpc EXCEPT ![c] = "u_check"]
         /\ listing' = [listing EXCEPT ![c] = rest]
         /\ file_path' = [file_path EXCEPT ![c] = None]
         /\ attempted' = [attempted EXCEPT ![c] =
                IF cpc[c] = "u_unlink" THEN @ \cup {file_path[c]} ELSE @]
         /\ UNCHANGED <<current_time, items, idx, files_to_remove, popped, wake, cret>>

\* an exception of the pass that no handler takes: the caller gets it
Uncaught(c) ==
    /\ cpc' = [cpc EXCEPT ![c] = "raised"]
    /\ UNCHANGED <<current_time, items, idx, files_to_remove, popped, listing,
                   file_path, attempted, wake, cret>>

\* cleanup.py:71-72  the handler around the directory loop logs; the pass is
\* over and the caller goes on (to its sleep at 47, to its return at 143)
Caught(c) == EndSweep(c)

\* cleanup.py:61  TEMP_DIR.glob("*"): the files present, or the listing
\* raises and the handler at 71-72 ends the pass
Glob(c) ==
    /\ cpc[c] = "glob"
    /\ UNCHANGED <<now, disk, temp_files, uuid_count, svars>>
    /\ \/ Continue(c, Files) /\ Observed(c, FALSE)
       \/ Caught(c) /\ Observed(c, TRUE)

\* a test that takes every file of the directory for untracked
UntrackedAnyFile(p) == Exists(p)

\* cleanup.py:62  not in temp_files and is_file()
Untracked(p) == p \notin Keys(temp_files) /\ Exists(p)

UntrackedCheck(c) ==
    /\ cpc[c] = "u_check"
    /\ \E p \in listing[c] :
          IF Untracked(p)
          THEN /\ cpc' = [cpc EXCEPT ![c] = "u_stat"]
               /\ file_path' = [file_path EXCEPT ![c] = p]
               /\ listing' = [listing EXCEPT ![c] = @ \ {p}]
               /\ UNCHANGED <<current_time, items, idx, files_to_remove, popped,
                              wake, cret, attempted>>
          ELSE Continue(c, listing[c] \ {p})
    /\ UNCHANGED <<now, disk, temp_files, uuid_count, svars>>
    /\ Observed(c, FALSE)

\* cleanup.py:63-65  stat().st_mtime against the sweep's reference time; a
\* stat that raises is caught at 71-72, which ends the pass
UntrackedStat(c) ==
    /\ cpc[c] = "u_stat"
    /\ UNCHANGED <<now, disk, temp_files, uuid_count, svars>>
    /\ \/ /\ Exists(file_path[c])
          /\ IF Expired(current_time[c], disk[file_path[c]].mtime)
             THEN /\ cpc' = [cpc EXCEPT ![c] = "u_unlink"]
                  /\ UNCHANGED <<current_time, items, idx, files_to_remove, popped,
                                 listing, file_path, wake, cret, attempted>>
             ELSE Continue(c, listing[c])
          /\ Observed(c, FALSE)
       \/ Caught(c) /\ Observed(c, TRUE)

\* cleanup.py:66-70  file_path.unlink(): the file goes, or unlink raises and
\* the handler logs; the loop goes on either way
UntrackedUnlink(c) ==
    /\ cpc[c] = "u_unlink"
    /\ Continue(c, listing[c])
    /\ UNCHANGED <<now, temp_files, uuid_count, svars>>
    /\ \/ /\ Exists(file_path[c])
          /\ disk' = Unlink(disk, file_path[c])
          /\ Observed(c, FALSE)
       \/ /\ UNCHANGED disk
          /\ Observed(c, TRUE)

Sweep(c) ==
    \/ BeginSweep(c)
    \/ TrackedCheck(c)
    \/ TrackedUnlink(c)
    \/ PopEntry(c)
    \/ Glob(c)
    \/ UntrackedCheck(c)
    \/ UntrackedStat(c)
    \/ UntrackedUnlink(c)

\* cleanup.py:13-47  the daemon thread's loop
cleanup_expired_files == Sweep(Reaper)
\* the loops of all the daemon threads there are
cleanup_threads == \E r \in Reapers : Sweep(r)

\* cleanup.py:106-113  a run of the script (main.py:114-116, app.py:291-293)
\* creates a daemon thread on cleanup_expired_files and starts it
start_cleanup_thread ==
    /\ \E r \in Reapers :
          /\ cpc[r] = "unstarted"
          /\ cpc' = [cpc EXCEPT ![r] = "idle"]
    /\ UNCHANGED <<now, disk, temp_files, uuid_count, svars, current_time, items,
                   idx, files_to_remove, popped, listing, file_path, attempted,
                   wake, cret>>
    /\ Elsewhere
\* cleanup.py:116-143
manual_cleanup == Sweep(Manual)

\* --------------------------------------------------------- is_file_expired
\* the path of the k-th file that something other than save_uploaded_file
\* puts into TEMP_DIR (a name uuid4 never produces)
ForeignPath(k) == <<0 - k, <<>>>>
IsSaveCreated(p) == p[1] > 0

\* the expiry_hours argument: <<>> when left out, <<h>> when given
ExpiryHours == {None, <<0>>, <<FILE_EXPIRY_HOURS>>}

\* cleanup.py:86-87,100  expiry_hours * 3600, FILE_EXPIRY_HOURS when left out
WindowOf(expiry_hours) ==
    IF expiry_hours = None THEN expiry ELSE expiry_hours[1] * 3600

\* cleanup.py:75-87  the call, with its arguments
ExpiredCall(path, expiry_hours) ==
    /\ echeck.pc = "idle"
    /\ echeck' = [pc |-> "exists", file_path |-> path,
                  expiry_hours |-> expiry_hours, ret |-> FALSE, logged |-> FALSE]

\* cleanup.py:90-91  os.path.exists: False for a path that is not there
ExpiredExists ==
    /\ echeck.pc = "exists"
    /\ echeck' = IF Exists(echeck.file_path)
                 THEN [echeck EXCEPT !.pc = "stat"]
                 ELSE [echeck EXCEPT !.pc = "returned", !.ret = FALSE]

\* an exception of is_file_expired that no handler takes
ExpiredUncaught == echeck' = [echeck EXCEPT !.pc = "raised"]

\* cleanup.py:101-103  the handler logs and returns False
ExpiredCaught ==
    echeck' = [echeck EXCEPT !.pc = "returned", !.ret = FALSE, !.logged = TRUE]

\* cleanup.py:95-100  now() - st_mtime against the window, strictly
Older(mtime, window) == now - mtime > window

\* cleanup.py:94-100  os.stat, then the age by the file's modification
\* time; a stat that raises (file gone meanwhile, permission) goes to 101
ExpiredStat ==
    /\ echeck.pc = "stat"
    /\ \/ /\ Exists(echeck.file_path)
          /\ echeck' = [echeck EXCEPT
                 !.pc = "returned",
                 !.ret = Older(disk[echeck.file_path].mtime,
                               WindowOf(echeck.expiry_hours))]
       \/ ExpiredCaught

\* the caller takes the result
ExpiredDone ==
    /\ echeck.pc = "returned"
    /\ echeck' = NoCheck

\* cleanup.py:75-103  a caller asking about any path of TEMP_DIR, there or not
is_file_expired ==
    /\ \/ \E path \in Files \cup {ForeignPath(1)}, expiry_hours \in ExpiryHours :
             ExpiredCall(path, expiry_hours)
       \/ ExpiredExists
       \/ ExpiredStat
       \/ ExpiredDone
    /\ run' = <<>>
    /\ UNCHANGED <<now, disk, temp_files, uuid_count, svars, cvars, expiry, removed,
                   render>>

\* --------------------------------------------------------- render_markdown
\* the backquote character
BQ == "bq"
Fence == <<BQ, BQ, BQ>>
\* the lines a text is made of: fences without and with a language, a line
\* of text, an empty line, a line that only begins like a fence
Lines == { Fence, <<BQ, BQ, BQ, " ", "p">>, <<"a">>, <<>>, <<BQ, BQ>> }
\* markdown_text.split('\n') of the texts of at most MaxLines lines; a text
\* has one line at least
RECURSIVE LineLists(_)
LineLists(n) ==
    IF n = 1 THEN {<<line>> : line \in Lines}
    ELSE LineLists(n - 1) \cup
         {Append(ls, line) : ls \in {l \in LineLists(n - 1) : Len(l) = n - 1},
                             line \in Lines}

\* a fence test that wants the whole line to be the fence
IsWholeLine(line, prefix) == line = prefix

\* str.startswith(prefix)
StartsWith(line, prefix) ==
    Len(line) >= Len(prefix) /\ SubSeq(line, 1, Len(prefix)) = prefix

\* str.strip(): without the blanks at either end
Strip(s) ==
    LET inked == {i \in 1..Len(s) : s[i] # " "}
    IN  IF inked = {} THEN <<>>
        ELSE SubSeq(s, CHOOSE i \in inked : \A j \in inked : i <= j,
                       CHOOSE i \in inked : \A j \in inked : j <= i)

\* '\n'.join(ls)
RECURSIVE JoinLines(_)
JoinLines(ls) ==
    IF ls = <<>> THEN <<>>
    ELSE IF Len(ls) = 1 THEN ls[1]
    ELSE ls[1] \o <<"\n">> \o JoinLines(Tail(ls))

\* what one call of st.markdown, st.code, st.error or st.text shows: the text
\* passed, and the list of lines it was joined from (history)
Shown(kind, ls, language) ==
    [kind |-> kind, body |-> JoinLines(ls), language |-> language, lines |-> ls]

\* markdown_converter.py:128-130, 139-141, 152-153  the text gathered so far
\* goes to st.markdown, if there is any
FlushText(r) ==
    IF r.current_text # <<>>
    THEN [r EXCEPT !.out = Append(@, Shown("markdown", r.current_text, <<>>)),
                   !.current_text = <<>>]
    ELSE r

\* markdown_converter.py:125-149  the body of the loop for one line
RenderedLine(r) ==
    LET line == r.lines[r.i]
        flushed == FlushText(r)
    IN  IF StartsWith(line, Fence)
        THEN IF r.in_code_block
             THEN [flushed EXCEPT
                      !.out = Append(@, Shown("code", r.code_block_content, r.language)),
                      !.code_block_content = <<>>,
                      !.language = <<>>,
                      !.in_code_block = FALSE]
             ELSE [flushed EXCEPT
                      !.language = IF Len(line) > 3
                                   THEN Strip(SubSeq(line, 4, Len(line))) ELSE <<>>,
                      !.in_code_block = TRUE]
        ELSE IF r.in_code_block
             THEN [r EXCEPT !.code_block_content = Append(@, line)]
             ELSE [r EXCEPT !.current_text = Append(@, line)]

\* markdown_converter.py:151-159  after the loop: the remaining text, then a
\* code block left open if it has lines; return True
RenderedRest(r) ==
    LET flushed == FlushText(r)
    IN  [(IF r.in_code_block /\ r.code_block_content # <<>>
          THEN [flushed EXCEPT
                   !.out = Append(@, Shown("code", r.code_block_content, r.language))]
          ELSE flushed)
         EXCEPT !.pc = "returned", !.ret = TRUE]

\* markdown_converter.py:160-164  a Streamlit call raised: st.error, the
\* whole text through st.text, return False
RenderCaught ==
    render' = [render EXCEPT
                  !.pc = "returned",
                  !.ret = FALSE,
                  !.out = Append(Append(@, Shown("error", <<>>, <<>>)),
                                 Shown("text", render.lines, <<>>))]

\* markdown_converter.py:118-122  the call: the text split into lines
RenderCall(lines) ==
    /\ render.pc = "idle"
    /\ render' = [NoRender EXCEPT !.pc = "loop", !.lines = lines, !.i = 1]

\* one turn of the loop; the st.markdown or st.code of the turn may raise
RenderLine ==
    /\ render.pc = "loop"
    /\ render.i <= Len(render.lines)
    /\ \/ render' = [RenderedLine(render) EXCEPT !.i = @ + 1]
       \/ /\ RenderedLine(render).out # render.out
          /\ RenderCaught

RenderEnd ==
    /\ render.pc = "loop"
    /\ render.i > Len(render.lines)
    /\ \/ render' = RenderedRest(render)
       \/ /\ RenderedRest(render).out # render.out
          /\ RenderCaught

\* the caller takes the result
RenderDone ==
    /\ render.pc = "returned"
    /\ render' = NoRender

\* markdown_converter.py:104-164  render_markdown on every text of at most
\* MaxLines lines
render_markdown ==
    /\ \/ \E lines \in LineLists(MaxLines) : RenderCall(lines)
       \/ RenderLine
       \/ RenderEnd
       \/ RenderDone
    /\ UNCHANGED <<now, disk, temp_files, uuid_count, svars, cvars, expiry, echeck,
                   hvars>>

\* ------------------------------------------------------------- environment
\* a file appears in TEMP_DIR without save_uploaded_file
ForeignPlace ==
    /\ \E k \in 1..MaxForeign :
          /\ ~Exists(ForeignPath(k))
          /\ disk' = WriteFile(disk, ForeignPath(k), [of |-> 0, n |-> 0], now)
    /\ UNCHANGED <<now, temp_files, uuid_count, svars, cvars>>
    /\ Elsewhere

\* a file of TEMP_DIR is removed by something other than this program
ExternalRemove ==
    /\ \E p \in Files : disk' = Unlink(disk, p)
    /\ UNCHANGED <<now, temp_files, uuid_count, svars, cvars>>
    /\ Elsewhere

\* ------------------------------------------------------------ specifications
Tick == TickSecond \/ TickWindow

\* One upload session beside the reaper thread and a caller of manual_cleanup.
Next ==
    \/ Tick
    \/ Uploads({"script1"}, {PlainName}, {MaxBytes, MaxBytes + 1})
    \/ cleanup_expired_files
    \/ manual_cleanup
Spec == Init /\ [][Next]_vars

\* One upload session beside the reaper thread, in a directory that other
\* programs write to and delete from.
NextEnv ==
    \/ Tick
    \/ Uploads({"script1"}, {PlainName}, {MaxBytes, MaxBytes + 1})
    \/ cleanup_expired_files
    \/ ForeignPlace
    \/ ExternalRemove
SpecEnv == Init /\ [][NextEnv]_vars

\* Two upload sessions running save_uploaded_file side by side, every name
\* and payload, no cleanup in progress.
NextUploads == Tick \/ Uploads(Savers, Names, Payloads)
SpecUploads == Init /\ [][NextUploads]_vars

\* One upload session beside a caller of manual_cleanup, no reaper thread, in
\* a directory that other programs write to and delete from.
NextManual ==
    \/ Tick
    \/ Uploads({"script1"}, {PlainName}, {MaxBytes, MaxBytes + 1})
    \/ manual_cleanup
    \/ ForeignPlace
    \/ ExternalRemove
SpecManual == Init /\ [][NextManual]_vars

\* The process with its expiry window set to 0 (FILE_EXPIRY_HOURS = 0): one
\* upload session and a caller of manual_cleanup.
InitZero == Start /\ expiry = 0
NextZero ==
    \/ Tick
    \/ Uploads({"script1"}, {PlainName}, {MaxBytes})
    \/ manual_cleanup
SpecZero == InitZero /\ [][NextZero]_vars

\* A caller of is_file_expired beside one upload session and other programs.
NextExpiry ==
    \/ Tick
    \/ Uploads({"script1"}, {PlainName}, {MaxBytes})
    \/ ForeignPlace
    \/ ExternalRemove
    \/ is_file_expired
SpecExpiry == Init /\ [][NextExpiry]_vars

\* One upload session beside the reaper thread, which the interpreter keeps
\* scheduling: a daemon thread that can take a step takes it in the end.
NextLive ==
    \/ Tick
    \/ Uploads({"script1"}, {PlainName}, {MaxBytes})
    \/ cleanup_expired_files
SpecLive == Init /\ [][NextLive]_vars /\ WF_vars(cleanup_expired_files)

\* One session whose uploads go through process_file, beside the reaper
\* thread.
NextProcess ==
    \/ Tick
    \/ process_file({"script1"}, UploadNames, {MaxBytes, MaxBytes + 1})
    \/ cleanup_expired_files
SpecProcess == Init /\ [][NextProcess]_vars

\* One upload session given every hostile name, no cleanup in progress.
NextNames == Tick \/ Uploads({"script1"}, HostileNames, {MaxBytes})
SpecNames == Init /\ [][NextNames]_vars

\* One upload session, and the script run again while the daemon thread of
\* its first run is alive.
NextRerun ==
    \/ Tick
    \/ Uploads({"script1"}, {PlainName}, {MaxBytes})
    \/ start_cleanup_thread
    \/ cleanup_threads
SpecRerun == Init /\ [][NextRerun]_vars

\* The preview of a converted text, nothing else going on.
NextRender == render_markdown
SpecRender == Init /\ [][NextRender]_vars

\* ================================================================= properties
\* a call of save_uploaded_file has returned to its caller
Returned(s) == spc[s] = "returned"
\* ... with a path
ReturnedPath(s) == Returned(s) /\ sret[s] # None
\* ... after refusing the payload for its size
Refused(s) == Returned(s) /\ uploaded_file[s].value > MaxBytes

\* C1  No premature reaping: while now - createdAt(p) has not exceeded the
\* expiry window, a path p that save_uploaded_file returned is still a file
\* on disk and still a key of temp_files, under any interleaving of the save
\* with reaper sweeps and manual_cleanup.
C1_NoPrematureReaping ==
    \A s \in Savers :
        (ReturnedPath(s) /\ now - saved_at[s] <= ExpirySeconds)
            => (Exists(sret[s]) /\ sret[s] \in Keys(temp_files))

\* C2  A payload longer than MAX_FILE_SIZE_MB * 1024 * 1024 bytes writes no
\* file and adds no entry: the call is over in its size test, with the
\* directory and temp_files as they were, and it never reaches open().
C2_OversizeWritesNothing ==
    /\ [](\A s \in Savers :
            uploaded_file[s].value > MaxBytes
                => (spc[s] = "returned" /\ temp_file_path[s] = None /\ sret[s] = None))
    /\ [][\A s \in Savers :
            (spc[s] = "idle" /\ spc'[s] # "idle" /\ uploaded_file'[s].value > MaxBytes)
                => (disk' = disk /\ temp_files' = temp_files)]_vars

C2_Witness ==
    \E s \in Savers : Refused(s) /\ uploaded_file[s].value = MaxBytes + 1

\* the outcome the spec gives a refused upload
SizeLimitError(limit, actual) == <<"SizeLimitError", limit, actual>>

\* C3 as stated: the caller of a refused save receives a SizeLimitError value
\* carrying the limit and the actual size, unlike what a write failure gives.
C3_SizeLimitErrorReturned ==
    \A s \in Savers :
        Refused(s) => sret[s] = SizeLimitError(MaxBytes, uploaded_file[s].value)

\* C3 amended: a refused save returns None, the value a write failure returns
\* too; the limit (in MB) and the actual size (in MB, rounded to one decimal)
\* are in the st.error message only, which differs from the message of a
\* write failure.
C3_SizeRejectionReported ==
    \A s \in Savers :
        /\ Refused(s) =>
             /\ sret[s] = None
             /\ st_error[s].kind = "size"
             /\ st_error[s].limit * 1024 * 1024 = MaxBytes
             /\ 2 * (st_error[s].actual * 1024 * 1024 - uploaded_file[s].value * 10)
                    \in (0 - 1024 * 1024)..(1024 * 1024)
        /\ (Returned(s) /\ ~Refused(s) /\ sret[s] = None) =>
             st_error[s].kind = "io"

C3_Witness ==
    \E s \in Savers :
        /\ Refused(s)
        /\ uploaded_file[s].value = MaxBytes + 64 * 1024
        /\ st_error[s].actual = 501

\* C4  A payload b of at most the maximum (the maximum included) is saved:
\* short of an I/O error the call returns a path, the path is a key of
\* temp_files with the time of the save, and the file at the path holds b.
C4_SaveRoundTrip ==
    \A s \in Savers :
        /\ (Returned(s) /\ uploaded_file[s].value <= MaxBytes /\ st_error[s].kind # "io")
              => sret[s] # None
        /\ ReturnedPath(s) =>
              /\ sret[s] \in Keys(temp_files)
              /\ Lookup(temp_files, sret[s]) = saved_at[s]
              /\ Exists(sret[s])
              /\ disk[sret[s]].content.of = uploaded_file[s].value
              /\ disk[sret[s]].content.n = uploaded_file[s].value
              /\ disk[sret[s]].mtime <= Lookup(temp_files, sret[s])
              /\ Lookup(temp_files, sret[s]) <= now

C4_Witness ==
    \E s \in Savers :
        /\ ReturnedPath(s)
        /\ uploaded_file[s].value = MaxBytes
        /\ disk[sret[s]].content.n = MaxBytes

\* C5  Two calls given the same file name, one after the other or interleaved,
\* get different paths and leave different keys: a call never opens a file
\* that exists already nor registers a key that is there already.
C5_DistinctPaths ==
    /\ [](\A s, t \in Savers :
            (s # t /\ temp_file_path[s] # None /\ temp_file_path[t] # None)
                => temp_file_path[s] # temp_file_path[t])
    /\ [](\A i, j \in 1..Len(temp_files) :
            i # j => temp_files[i].path # temp_files[j].path)
    /\ [][\A s \in Savers :
            /\ (spc[s] = "open" /\ spc'[s] = "write") => ~Exists(temp_file_path[s])
            /\ (spc[s] = "track" /\ spc'[s] = "returned")
                  => /\ temp_file_path[s] \notin Keys(temp_files)
                     /\ Len(temp_files') = Len(temp_files) + 1]_vars

C5_Witness ==
    \E s, t \in Savers :
        /\ s # t
        /\ ReturnedPath(s) /\ ReturnedPath(t)
        /\ uploaded_file[s].name = uploaded_file[t].name
        /\ sret[s] # sret[t]
        /\ {sret[s], sret[t]} \subseteq Keys(temp_files)

\* ------------------------------------------------------------ the sweeps
\* the age the sweep of c computes for the i-th entry of its snapshot
Age(c, i) == current_time[c] - items[c][i].time
\* the tracked loop of c is past the i-th entry of its snapshot
Past(c, i) ==
    \/ cpc[c] \in {"pop", "glob", "u_check", "u_stat", "u_unlink"}
    \/ cpc[c] \in {"tracked", "t_unlink"} /\ (idx[c] = 0 \/ idx[c] > i)
\* the sweep of c has popped what it listed and is in its untracked pass
InUntrackedPass(c) == cpc[c] \in {"glob", "u_check", "u_stat", "u_unlink"}
\* the sweep of c called unlink on p and unlink raised
UnlinkRaised(c, p) == p \in attempted[c] /\ p \notin Range(files_to_remove[c])

\* C6  The expiry test is strict.  An entry whose age by the sweep's reference
\* time is the expiry window or less is not unlinked and not listed for
\* removal by that sweep; an entry older by a second or more is: the sweep
\* calls unlink on it (or finds it missing) and, unless unlink raised, the
\* file is gone and the entry is popped when the tracked pass ends.
C6_StrictExpiry ==
    \A c \in Cleaners :
        /\ cpc[c] \in {"tracked", "t_unlink"} => Age(c, idx[c]) > ExpirySeconds
        /\ \A i \in 1..Len(items[c]) :
              LET path == items[c][i].path
              IN  /\ Age(c, i) <= ExpirySeconds
                        => (path \notin Range(files_to_remove[c]) /\ path \notin attempted[c])
                  /\ (Age(c, i) >= ExpirySeconds + 1 /\ Past(c, i))
                        => \/ UnlinkRaised(c, path)
                           \/ /\ path \in Range(files_to_remove[c])
                              /\ ~Exists(path)
                              /\ InUntrackedPass(c) => path \notin Keys(temp_files)

\* one sweep over an entry aged exactly the window, kept, and one aged the
\* window plus a second, deleted and popped
C6_Witness ==
    \E c \in Cleaners :
        /\ InUntrackedPass(c)
        /\ \E i, j \in 1..Len(items[c]) :
              /\ Age(c, i) = ExpirySeconds
              /\ Exists(items[c][i].path)
              /\ items[c][i].path \in Keys(temp_files)
              /\ Age(c, j) = ExpirySeconds + 1
              /\ ~Exists(items[c][j].path)
              /\ items[c][j].path \in attempted[c]
              /\ items[c][j].path \notin Keys(temp_files)

\* C7 as stated: when the tracked pass is over, every entry it found expired
\* is out of temp_files, whether its file was deleted, was gone already, or
\* unlink raised.
C7_ExpiredAlwaysRemoved ==
    \A c \in Cleaners :
        InUntrackedPass(c) =>
            \A i \in 1..Len(items[c]) :
                Age(c, i) > ExpirySeconds => items[c][i].path \notin Keys(temp_files)

\* C7 amended: when the tracked pass is over, an entry it found expired is out
\* of temp_files if the pass deleted the file or found it gone already; if
\* unlink raised, the pass has not listed the entry for removal, and while the
\* file is still there the entry stays in temp_files.
C7_RemovedUnlessUnlinkRaised ==
    \A c \in Cleaners :
        InUntrackedPass(c) =>
            \A i \in 1..Len(items[c]) :
                LET path == items[c][i].path
                IN  Age(c, i) > ExpirySeconds =>
                        \/ /\ path \in Range(files_to_remove[c])
                           /\ path \notin Keys(temp_files)
                           /\ ~Exists(path)
                        \/ /\ UnlinkRaised(c, path)
                           /\ Exists(path) => path \in Keys(temp_files)

\* both cases in one sweep: an entry popped and an entry kept after a raise
C7_Witness ==
    \E c \in Cleaners :
        /\ InUntrackedPass(c)
        /\ \E i, j \in 1..Len(items[c]) :
              /\ Age(c, i) > ExpirySeconds /\ Age(c, j) > ExpirySeconds
              /\ items[c][i].path \in Range(files_to_remove[c])
              /\ items[c][i].path \notin Keys(temp_files)
              /\ UnlinkRaised(c, items[c][j].path)
              /\ Exists(items[c][j].path)
              /\ items[c][j].path \in Keys(temp_files)

\* C8  A delete that failed is not tried again in the same sweep, and the
\* sweep does not give the file up: unlink is never called on a path the
\* sweep has called it on before, and a snapshot entry whose unlink raised
\* with the file still on disk is still a key of temp_files, not listed for
\* removal, so that the next sweep comes to it again.
C8_NoRetryWithinSweep ==
    \A c \in Cleaners :
        /\ cpc[c] = "t_unlink" => items[c][idx[c]].path \notin attempted[c]
        /\ cpc[c] = "u_unlink" => file_path[c] \notin attempted[c]
        /\ \A i \in 1..Len(items[c]) :
              LET path == items[c][i].path
              IN  (path \in attempted[c] /\ Exists(path))
                      => /\ path \in Keys(temp_files)
                         /\ path \notin Range(files_to_remove[c])
                         /\ ~Untracked(path)

C8_Witness ==
    \E c \in Cleaners :
        /\ cpc[c] = "u_check"
        /\ \E i \in 1..Len(items[c]) :
              /\ items[c][i].path \in attempted[c]
              /\ items[c][i].path \in listing[c]
              /\ Exists(items[c][i].path)

\* a step that takes p out of temp_files
Removes(p) == p \in Keys(temp_files) /\ p \notin Keys(temp_files')
\* the step that ends the sweep of c
Finishes(c) == cpc[c] # "idle" /\ cpc'[c] = "idle"

\* C9 (a): whenever a sweep takes p out of temp_files, the file p is not on
\* disk at that moment.
C9_RemovedOnlyWhenGone ==
    \A i \in 1..Len(temp_files) :
        Removes(temp_files[i].path) => ~Exists(temp_files[i].path)

\* the step that takes p out of temp_files is the pop of a sweep that found
\* p expired
C9_RemovedOnlyWhenExpired ==
    \A i \in 1..Len(temp_files) :
        Removes(temp_files[i].path) =>
            \E c \in Cleaners :
                /\ cpc[c] = "pop"
                /\ \E j \in 1..Len(items[c]) :
                      /\ items[c][j].path = temp_files[i].path
                      /\ Age(c, j) > ExpirySeconds

\* C9 as stated: (a), and (b) whenever a sweep that had p in its snapshot
\* finishes while the file p is not on disk, p is not a key of temp_files.
C9_MapFollowsDisk ==
    [][/\ C9_RemovedOnlyWhenGone
       /\ \A c \in Cleaners :
            Finishes(c) =>
                \A i \in 1..Len(items[c]) :
                    ~Exists(items[c][i].path) => items[c][i].path \notin Keys(temp_files')
      ]_vars

\* C9 amended: (a), and (b) whenever a sweep finishes, every entry it found
\* expired and whose file it deleted or found missing is not a key of
\* temp_files; an entry is taken out of temp_files only by a sweep that found
\* it expired, so an entry that is not expired stays although its file is gone.
C9_MapFollowsReaping ==
    [][/\ C9_RemovedOnlyWhenGone
       /\ C9_RemovedOnlyWhenExpired
       /\ \A c \in Cleaners :
            Finishes(c) =>
                \A i \in 1..Len(items[c]) :
                    (Age(c, i) > ExpirySeconds /\ ~UnlinkRaised(c, items[c][i].path))
                        => items[c][i].path \notin Keys(temp_files')
      ]_vars

\* a sweep is about to finish over an entry, not expired, whose file was
\* removed from outside: the entry stays
C9_Witness ==
    \E c \in Cleaners :
        /\ cpc[c] = "glob"
        /\ \E i \in 1..Len(items[c]) :
              /\ Age(c, i) <= ExpirySeconds
              /\ ~Exists(items[c][i].path)
              /\ items[c][i].path \in Keys(temp_files)

\* C10  No orphaning at creation: a file that save_uploaded_file created is a
\* key of temp_files whenever a cleanup pass examines it, so no pass finds a
\* save-created file untracked.
C10_NoOrphanObserved ==
    \A c \in Cleaners :
        cpc[c] \in {"u_stat", "u_unlink"} => ~IsSaveCreated(file_path[c])

\* ------------------------------------------------------- the untracked pass
\* the paths of the files placed in TEMP_DIR without save_uploaded_file
ForeignPaths == {ForeignPath(k) : k \in 1..MaxForeign}
\* the age the sweep of c computes for the file p from its modification time
MtimeAge(c, p) == current_time[c] - disk[p].mtime
\* the sweep of c is in the directory loop of its untracked pass
InDirectoryLoop(c) == cpc[c] \in {"u_check", "u_stat", "u_unlink"}
\* the step is one of the sweep of c
StepOf(c) ==
    <<cpc[c], idx[c], popped[c], listing[c]>>' # <<cpc[c], idx[c], popped[c], listing[c]>>

\* C11  A file placed in TEMP_DIR without save_uploaded_file is never a key of
\* temp_files.  The untracked pass of a sweep does not pass it over: while the
\* directory loop runs, such a file older by its modification time than the
\* window is still to be examined, is under examination, or has had unlink
\* called on it.  The pass examines it as untracked, goes on to unlink exactly
\* when the age computed from st_mtime exceeds the window (or stat raised and
\* the pass is over), and after the unlink the file is gone unless unlink
\* raised.
C11_ForeignReapedByMtime ==
    /\ [](\A p \in ForeignPaths : p \notin Keys(temp_files))
    /\ [](\A c \in Cleaners, p \in ForeignPaths :
            (InDirectoryLoop(c) /\ Exists(p) /\ MtimeAge(c, p) > ExpirySeconds)
                => (p \in listing[c] \/ p = file_path[c] \/ p \in attempted[c]))
    /\ [][\A c \in Cleaners, p \in ForeignPaths :
            /\ (cpc[c] = "u_check" /\ p \in listing[c] \ listing'[c] /\ Exists(p))
                  => (cpc'[c] = "u_stat" /\ file_path'[c] = p)
            /\ (cpc[c] = "u_stat" /\ file_path[c] = p /\ StepOf(c)) =>
                  /\ cpc'[c] = "u_unlink" => (Exists(p) /\ MtimeAge(c, p) > ExpirySeconds)
                  /\ (Exists(p) /\ MtimeAge(c, p) > ExpirySeconds)
                        => cpc'[c] \in {"u_unlink", "idle"}
            /\ (cpc[c] = "u_unlink" /\ file_path[c] = p /\ StepOf(c))
                  => (p \notin DOMAIN disk' \/ disk' = disk)]_vars

\* the reaper has unlinked a foreign file in its untracked pass and goes on
\* with the rest of the listing, temp_files never having held the path
C11_Witness ==
    /\ cpc[Reaper] = "u_check"
    /\ ForeignPath(1) \in attempted[Reaper]
    /\ ~Exists(ForeignPath(1))
    /\ temp_files # <<>>

\* --------------------------------------------------------- manual_cleanup
\* the step takes the file p off the disk
Deletes(p) == p \in Files /\ p \notin DOMAIN disk'

\* C12 as stated: manual_cleanup does the tracked pass and no directory scan;
\* a file whose path is not a key of temp_files is after every step of
\* manual_cleanup on disk as it was before the step.
C12_ManualTrackedOnly ==
    [][StepOf(Manual) =>
         \A p \in Files :
             p \notin Keys(temp_files) => (p \in DOMAIN disk' /\ disk'[p] = disk[p])
      ]_vars

\* C12 amended: manual_cleanup does the tracked pass and then the directory
\* scan of cleanup_untracked_files with the call's reference time.  It takes a
\* file off the disk in the tracked pass, when the file is the one of an entry
\* it found expired, or in the scan, when the file is one the scan found not to
\* be a key of temp_files and then, by its modification time, older than the
\* window; no step of it changes a file it leaves.
C12_ManualReapsUntracked ==
    [][StepOf(Manual) =>
         /\ \A p \in Files :
              /\ Deletes(p) =>
                    \/ /\ cpc[Manual] = "t_unlink"
                       /\ items[Manual][idx[Manual]].path = p
                       /\ Age(Manual, idx[Manual]) > ExpirySeconds
                    \/ /\ cpc[Manual] = "u_unlink"
                       /\ file_path[Manual] = p
              /\ ~Deletes(p) => disk'[p] = disk[p]
         /\ (cpc[Manual] = "u_check" /\ cpc'[Manual] = "u_stat")
               => /\ file_path'[Manual] \notin Keys(temp_files)
                  /\ Exists(file_path'[Manual])
         /\ (cpc[Manual] = "u_stat" /\ cpc'[Manual] = "u_unlink")
               => /\ Exists(file_path[Manual])
                  /\ MtimeAge(Manual, file_path[Manual]) > ExpirySeconds
      ]_vars

\* manual_cleanup has returned after unlinking a file that was placed in
\* TEMP_DIR without save_uploaded_file
C12_Witness ==
    /\ cpc[Manual] = "idle"
    /\ ForeignPath(1) \in removed
    /\ ~Exists(ForeignPath(1))

\* C13  Whatever temp_files and TEMP_DIR hold, the value manual_cleanup
\* returns is the number of files the call took off the disk.
C13_ReturnsFilesRemoved ==
    cpc[Manual] = "idle" => cret = Cardinality(removed)

\* the step is one of a manual_cleanup call that began right after another
\* had returned, nothing else having taken a step since that one began
SecondCallStep == StepOf(Manual) /\ Len(run') = 2
\* such a second call has returned
SecondCallOver == cpc[Manual] = "idle" /\ Len(run) = 2

ReturnsOverOneSave ==
    Finishes(Manual) /\ Len(items[Manual]) = 1 /\ uuid_count = 1

\* C15 as stated: with the window at 0 seconds, a manual_cleanup called right
\* after one save returns 1 and leaves no file and an empty temp_files.
C15_ZeroWindowReaps ==
    [][ReturnsOverOneSave
          => (cret' = 1 /\ temp_files' = <<>> /\ disk' = <<>>)]_vars

\* C15 amended: with the window at 0 seconds, a manual_cleanup called after one
\* save returns 1 and leaves no file and an empty temp_files when its
\* reference time is later than the time the save registered and unlink does
\* not raise; when the two readings of the clock are equal the age is 0, which
\* is not greater than 0: the call returns 0 and file and entry stay.
C15_ZeroWindowReapsOnceClockMoved ==
    [][ReturnsOverOneSave =>
          LET path == items[Manual][1].path
          IN  /\ (Age(Manual, 1) > 0 /\ ~UnlinkRaised(Manual, path))
                    => (cret' = 1 /\ temp_files' = <<>> /\ disk' = <<>>)
              /\ Age(Manual, 1) = 0
                    => /\ cret' = 0
                       /\ temp_files' = items[Manual]
                       /\ disk' = disk
                       /\ removed' = {}
      ]_vars

\* the window is 0, one file was saved, and manual_cleanup has returned 1
\* having unlinked it
C15_Witness ==
    /\ expiry = 0
    /\ uuid_count = 1
    /\ cpc[Manual] = "idle"
    /\ cret = 1
    /\ Cardinality(removed) = 1
    /\ temp_files = <<>>
    /\ disk = <<>>

\* ------------------------------------------------------- the reaper's loop
\* the places of the loop of cleanup_expired_files: asleep or in a sweep
LoopPositions ==
    {"idle", "tracked", "t_unlink", "pop", "glob", "u_check", "u_stat", "u_unlink"}

\* C16  The reaper's loop is not stopped by an error.  The thread is always at
\* a place of its loop, no exception having left it; a sweep always comes to
\* its end, whatever unlink, stat or the listing raised on the way; the end
\* of a sweep, early or not, is the sleep of the fixed interval; and once the
\* sleep is over another sweep begins.
C16_ReaperNeverStops ==
    /\ [](cpc[Reaper] \in LoopPositions)
    /\ [][Finishes(Reaper) => wake'[Reaper] = now + SleepSeconds]_vars
    /\ (cpc[Reaper] # "idle") ~> (cpc[Reaper] = "idle")
    /\ (cpc[Reaper] = "idle" /\ now >= wake[Reaper]) ~> (cpc[Reaper] # "idle")

\* unlink has raised on an untracked file, which is still there, and the
\* reaper's directory loop goes on with the next file
C16_Witness ==
    /\ cpc[Reaper] = "u_check"
    /\ \E p \in attempted[Reaper] : Exists(p) /\ p \notin Keys(temp_files)

\* the paths save_uploaded_file can give the uploads of PlainName
SavedPaths == {TempPath(uuid4(k), PlainName) : k \in 0..(MaxSaves - 1)}
\* p is an entry of temp_files older than the window
ExpiredEntry(p) ==
    p \in Keys(temp_files) /\ now - Lookup(temp_files, p) > ExpirySeconds
\* the reaper's sleep is over
Awake == cpc[Reaper] = "idle" /\ now >= wake[Reaper]

\* C17  Eventual reclamation.  With the reaper thread scheduled fairly, an
\* entry of temp_files that is older than the window when the reaper wakes is
\* in the end out of temp_files with its file off the disk, unless unlink
\* raised on it in that sweep (the entry then stays, for the next sweep).
C17_EventuallyReclaimed ==
    \A p \in SavedPaths :
        (ExpiredEntry(p) /\ Awake)
            ~> ((p \notin Keys(temp_files) /\ ~Exists(p)) \/ UnlinkRaised(Reaper, p))

\* the reaper, awake at a time when entries were older than the window, has
\* unlinked their files and popped them
C17_Witness ==
    /\ cpc[Reaper] = "glob"
    /\ files_to_remove[Reaper] # <<>>
    /\ \A p \in Range(files_to_remove[Reaper]) :
          /\ p \in attempted[Reaper]
          /\ p \notin Keys(temp_files)
          /\ ~Exists(p)

\* --------------------------------------------------------- is_file_expired
\* the window, in seconds, that goes with the expiry_hours of the call
CallWindow ==
    IF echeck.expiry_hours = None
    THEN FILE_EXPIRY_HOURS * 3600
    ELSE echeck.expiry_hours[1] * 3600
\* the step on which the call returns
ExpiredReturns == echeck.pc \in {"exists", "stat"} /\ echeck'.pc = "returned"

\* C18  is_file_expired never raises: a call is at one of its own places
\* until it returns.  It returns False at once for a path that does not
\* exist, and False, having logged, when stat raises; otherwise it returns
\* True exactly when now minus the file's modification time is strictly
\* greater than expiry_hours * 3600, FILE_EXPIRY_HOURS when none is given.
C18_ExpiredExactly ==
    /\ [](echeck.pc \in {"idle", "exists", "stat", "returned"})
    /\ [][ExpiredReturns =>
            LET path == echeck.file_path
            IN  /\ echeck.pc = "exists" =>
                      (~Exists(path) /\ ~echeck'.ret /\ ~echeck'.logged)
                /\ (echeck.pc = "stat" /\ ~Exists(path)) =>
                      (~echeck'.ret /\ echeck'.logged)
                /\ echeck'.logged => ~echeck'.ret
                /\ (echeck.pc = "stat" /\ ~echeck'.logged) =>
                      /\ Exists(path)
                      /\ echeck'.ret <=> (now - disk[path].mtime > CallWindow)
          ]_vars
    /\ [][(echeck.pc = "exists" /\ echeck'.pc # "exists")
             => (echeck'.pc = "stat" <=> Exists(echeck.file_path))]_vars

\* a call has returned True for a file a second older than the window, and
\* the window was the default
C18_Witness ==
    /\ echeck.pc = "returned"
    /\ echeck.ret
    /\ echeck.expiry_hours = None
    /\ Exists(echeck.file_path)
    /\ now - disk[echeck.file_path].mtime = ExpirySeconds + 1

\* ------------------------------------------------------------ write failure
\* the step on which open or write raises in the call of s
WriteFails(s) ==
    spc[s] \in {"open", "write"} /\ spc'[s] \notin {spc[s], "write", "track"}

\* C19  When open or write raises, save_uploaded_file raises nothing to its
\* caller: the call returns, with no path; it adds no entry to temp_files and
\* the entries there stay as they are.
C19_WriteFailureContained ==
    /\ [](\A s \in Savers : spc[s] \in {"idle", "open", "write", "track", "returned"})
    /\ [](\A s \in Savers :
            (Returned(s) /\ st_error[s].kind = "io")
                => (sret[s] = None /\ temp_file_path[s] \notin Keys(temp_files)))
    /\ [][\A s \in Savers :
            WriteFails(s) =>
                /\ spc'[s] = "returned"
                /\ sret'[s] = None
                /\ st_error'[s].kind = "io"
                /\ temp_files' = temp_files]_vars

\* a call whose write raised has returned None, its file left in TEMP_DIR
\* and the entry of another call in temp_files
C19_Witness ==
    \E s \in Savers :
        /\ Returned(s)
        /\ st_error[s].kind = "io"
        /\ sret[s] = None
        /\ Exists(temp_file_path[s])
        /\ temp_files # <<>>

\* ------------------------------------------- errors kept inside the cleanup
\* C20  manual_cleanup and the cleanup_untracked_files it calls let no error
\* out.  The call is always at one of its own places; after an unlink that
\* raised (the directory unchanged by the step) the loop it is in goes on;
\* after a stat or a listing that raised the scan is over and the call
\* returns; and the call always returns len(files_to_remove), normally.
C20_CleanupNeverRaises ==
    /\ [](cpc[Manual] \in LoopPositions)
    /\ [][StepOf(Manual) =>
            /\ (cpc[Manual] = "t_unlink" /\ disk' = disk)
                  => cpc'[Manual] \in {"tracked", "pop", "glob"}
            /\ (cpc[Manual] = "u_unlink" /\ disk' = disk)
                  => cpc'[Manual] \in {"u_check", "idle"}
            /\ cpc[Manual] = "u_stat" => cpc'[Manual] \in {"u_check", "u_unlink", "idle"}
            /\ cpc[Manual] = "glob" => cpc'[Manual] \in {"u_check", "idle"}
            /\ Finishes(Manual) => cret' = Len(files_to_remove[Manual])
          ]_vars

\* manual_cleanup has returned from a call in which a filesystem call raised,
\* leaving in TEMP_DIR a file older than the window
C20_Witness ==
    /\ cpc[Manual] = "idle"
    /\ run # <<>>
    /\ run[Len(run)].failed
    /\ \E p \in Files : now - disk[p].mtime > ExpirySeconds

\* ------------------------------------------- one failure inside a pass
\* C21  Within one pass, a failure on one file does not stop the pass.  After
\* an unlink that raised in the tracked loop the loop goes on; in the
\* directory loop, a step at stat or unlink taken while files of the listing
\* are still to be examined goes on to the unlink of the file at hand or to
\* the next file of the listing, stat or unlink having raised or not: the
\* sweep does not end with files left unexamined.
C21_FailureKeepsPassGoing ==
    [][\A c \in Cleaners : StepOf(c) =>
          /\ cpc[c] = "t_unlink" => cpc'[c] \in {"tracked", "pop", "glob"}
          /\ (cpc[c] = "u_unlink" /\ listing[c] # {}) => cpc'[c] = "u_check"
          /\ (cpc[c] = "u_stat" /\ listing[c] # {})
                => cpc'[c] \in {"u_unlink", "u_check"}]_vars

\* ------------------------------------------------ a save beside a sweep
\* C22  A save that interleaves with a running sweep is safe.  While the save
\* has written its file and not yet registered the path, no step of the
\* sweep's directory loop deletes that file; an entry the save added after
\* the sweep took its snapshot is not removed by that sweep's pops; and the
\* next sweep to begin has the entry in its snapshot.
C22_SaveSafeUnderSweep ==
    [][\A c \in Cleaners, s \in Savers :
          (StepOf(c) /\ temp_file_path[s] # None) =>
              /\ (InDirectoryLoop(c) /\ spc[s] \in {"write", "track"})
                    => ~Deletes(temp_file_path[s])
              /\ (cpc[c] = "pop" /\ temp_file_path[s] \notin Keys(items[c]))
                    => ~Removes(temp_file_path[s])
              /\ (cpc[c] = "idle" /\ temp_file_path[s] \in Keys(temp_files))
                    => temp_file_path[s] \in Keys(items'[c])]_vars

\* ------------------------------------------------ the order of the passes
\* C23  In every sweep the tracked pass, the removal of the reaped entries
\* included, is over before the untracked pass looks at the directory: in the
\* untracked pass the tracked loop has left its snapshot, every path listed
\* for removal has been popped and is no key of temp_files, and a file taken
\* for examination is no key of temp_files as it stands then.  The reference
\* time is taken once, when the sweep begins, and stays: the tracked loop
\* and the directory loop both measure age against it, not against the clock.
C23_TrackedThenUntracked ==
    /\ [](\A c \in Cleaners : InUntrackedPass(c) =>
            /\ idx[c] = 0
            /\ popped[c] = Len(files_to_remove[c])
            /\ \A p \in Range(files_to_remove[c]) : p \notin Keys(temp_files))
    /\ [][\A c \in Cleaners : StepOf(c) =>
            /\ cpc[c] = "idle" => current_time'[c] = now
            /\ (cpc[c] # "idle" /\ cpc'[c] # "idle")
                  => (current_time'[c] = current_time[c] /\ items'[c] = items[c])
            /\ cpc'[c] = "t_unlink"
                  => current_time'[c] - items'[c][idx'[c]].time > ExpirySeconds
            /\ cpc'[c] = "u_stat" => file_path'[c] \notin Keys(temp_files)
            /\ (cpc[c] = "u_stat" /\ cpc'[c] = "u_unlink")
                  => current_time[c] - disk[file_path[c]].mtime > ExpirySeconds
            /\ (cpc[c] = "u_stat" /\ cpc'[c] = "u_check" /\ Exists(file_path[c]))
                  => current_time[c] - disk[file_path[c]].mtime <= ExpirySeconds]_vars

\* the reaper has unlinked and popped an expired entry and is examining a
\* file of the directory that temp_files does not hold
C23_Witness ==
    /\ cpc[Reaper] = "u_stat"
    /\ files_to_remove[Reaper] # <<>>
    /\ popped[Reaper] = Len(files_to_remove[Reaper])
    /\ Exists(file_path[Reaper])

\* ------------------------------------------------------ one reaper thread
\* the daemon threads that have been started
Running == {r \in Reapers : cpc[r] # "unstarted"}

\* C24  At any time at most one reaper loop runs in the process, however
\* many times the script is executed, and sweeps of two reaper loops never
\* overlap.
C24_SingleReaper ==
    /\ Cardinality(Running) <= 1
    /\ \A r1, r2 \in Running : (cpc[r1] # "idle" /\ cpc[r2] # "idle") => r1 = r2

\* ------------------------------------------------- the scratch file's place
\* the file name <unique_id><file_ext> names a direct child of TEMP_DIR and
\* has nothing of the uploaded name but its extension: file_ext is empty or
\* is the end of the name from a dot on, with no separator and no further dot
ChildOfTempDir(p, name) ==
    LET unique_id == p[1]
        file_ext == p[2]
    IN  /\ unique_id \in 1..MaxSaves
        /\ "/" \notin Range(file_ext)
        /\ \/ file_ext = <<>>
           \/ /\ Len(file_ext) <= Len(name)
              /\ file_ext = SubSeq(name, Len(name) - Len(file_ext) + 1, Len(name))
              /\ file_ext[1] = "."
              /\ "." \notin Range(Tail(file_ext))

\* C25  For every uploaded name, hostile ones included, the path
\* save_uploaded_file computes, writes and registers is a direct child of
\* TEMP_DIR named by a unique id followed only by the extension of the name:
\* no separator, no ".." and nothing of the base name gets into it.  The id
\* is fresh: no file and no key has it when the path is computed.  Every file
\* the save creates and every key it adds is the path it computed.
C25_PathInsideTempDir ==
    /\ [](\A s \in Savers : temp_file_path[s] # None =>
            /\ ChildOfTempDir(temp_file_path[s], uploaded_file[s].name)
            /\ sret[s] \in {None, temp_file_path[s]})
    /\ [][\A s \in Savers :
            /\ (spc[s] = "idle" /\ spc'[s] = "open") =>
                  \A q \in Files \cup Keys(temp_files) : q[1] # temp_file_path'[s][1]
            /\ spc'[s] # spc[s] =>
                  /\ (DOMAIN disk') \ Files \subseteq {temp_file_path[s]}
                  /\ Keys(temp_files') \ Keys(temp_files) \subseteq {temp_file_path[s]}]_vars

\* the upload of "../a.md" has been written and registered as <id>.md
C25_Witness ==
    \E s \in Savers :
        /\ ReturnedPath(s)
        /\ uploaded_file[s].name = <<".", ".", "/", "a", ".", "m", "d">>
        /\ sret[s][2] = <<".", "m", "d">>
        /\ Exists(sret[s])
        /\ sret[s] \in Keys(temp_files)

\* --------------------------------------------- two sweeps over one entry
\* the sweep of c called unlink on p and the file went
Unlinked(c, p) == p \in attempted[c] /\ p \in Range(files_to_remove[c])
\* the sweep of c has listed p for removal and has not popped it yet
PopPending(c, p) ==
    /\ cpc[c] \in {"tracked", "t_unlink", "pop"}
    /\ \E i \in (popped[c] + 1)..Len(files_to_remove[c]) : files_to_remove[c][i] = p

\* the tracked loop of d has dealt with the entry of p in its snapshot
HasLeft(d, p) == \E i \in 1..Len(items[d]) : items[d][i].path = p /\ Past(d, i)

\* C26  Two sweeps interleaved statement by statement over the same expired
\* entry (each has it in its snapshot), with no lock.  Neither leaves its
\* pass by an exception.  At most one of them has unlinked the file.  A sweep
\* ends with every path it listed out of temp_files and off the disk; and
\* when unlink raised on one of them because the file had gone, the path is
\* out of temp_files, or the other sweep has it listed and is about to pop
\* it, or has not come to the entry yet (it will find the file missing and
\* list the path): once both are over, the path is in neither temp_files
\* nor TEMP_DIR.
C26_RacingSweeps ==
    /\ [](\A c \in Cleaners : cpc[c] \in LoopPositions \cup {"unstarted"})
    /\ [](\A c, d \in Cleaners : \A p \in attempted[c] \cap Keys(items[c]) :
            (Unlinked(c, p) /\ Unlinked(d, p)) => c = d)
    /\ [](\A c \in Cleaners : \A d \in Cleaners \ {c} :
            \A p \in attempted[c] \cap Keys(items[c]) \cap Keys(items[d]) :
                (UnlinkRaised(c, p) /\ ~Exists(p) /\ p \in Keys(temp_files))
                    => (PopPending(d, p) \/ ~HasLeft(d, p)))
    /\ [][\A c \in Cleaners : Finishes(c) =>
            \A p \in Range(files_to_remove[c]) :
                p \notin Keys(temp_files') /\ p \notin DOMAIN disk']_vars

\* the reaper and manual_cleanup both called unlink on the file of the same
\* expired entry: the file went with manual_cleanup's call, the reaper's
\* raised, and manual_cleanup has popped the entry
C26_Witness ==
    \E p \in attempted[Reaper] \cap attempted[Manual] :
        /\ Unlinked(Manual, p)
        /\ UnlinkRaised(Reaper, p)
        /\ cpc[Reaper] # "idle"
        /\ cpc[Manual] = "glob"
        /\ p \notin Keys(temp_files)
        /\ ~Exists(p)

\* ---------------------------------------- the untracked pass and the dict
\* C27  cleanup_untracked_files never adds, removes or changes an entry of
\* temp_files.  A file whose path is a key of temp_files when the directory
\* loop checks it is passed over, however old its modification time: it is
\* not taken for stat, and the only file a step of the pass deletes is the
\* one it took after finding its path not a key.
C27_UntrackedPassKeepsMap ==
    [][\A c \in Cleaners : (StepOf(c) /\ InUntrackedPass(c)) =>
          /\ temp_files' = temp_files
          /\ cpc'[c] = "u_stat" => file_path'[c] \notin Keys(temp_files)
          /\ cpc[c] = "u_check" =>
                /\ disk' = disk
                /\ \A p \in (listing[c] \ listing'[c]) \cap Keys(temp_files) :
                      cpc'[c] \in {"u_check", "idle"} /\ file_path'[c] = None
          /\ \A p \in Files : Deletes(p) => (cpc[c] = "u_unlink" /\ p = file_path[c])
      ]_vars

\* the reaper's directory loop has passed over a file that is a key of
\* temp_files and older by its modification time than the window, and goes
\* on with the rest of the listing
C27_Witness ==
    /\ cpc[Reaper] = "u_check"
    /\ \E p \in Keys(temp_files) :
          /\ Exists(p)
          /\ MtimeAge(Reaper, p) > ExpirySeconds
          /\ p \notin listing[Reaper]
          /\ p \notin attempted[Reaper]

\* ------------------------------------------------------- rejected uploads
\* the names of UploadNames whose extension is an accepted type, whatever
\* the case of its letters
AcceptedNames == {PlainName, UpperName}
\* process_file has an upload that is not of an accepted type or is over
\* the size limit
Rejects(upload) == upload.name \notin AcceptedNames \/ upload.value > MaxBytes

\* C28  process_file creates no scratch file and no temp_files entry for an
\* upload it rejects.  For a file whose extension is not an accepted type
\* (compared without regard to case) or whose size is over the limit, the
\* call is over at once with an st.error message: TEMP_DIR, temp_files and
\* the ids handed out are as they were, no path is computed, and the call
\* never comes to save_uploaded_file's open or to the converter.
C28_RejectedLeavesNothing ==
    /\ [](\A s \in Savers : (spc[s] # "idle" /\ Rejects(uploaded_file[s])) =>
            /\ spc[s] = "done"
            /\ temp_file_path[s] = None
            /\ sret[s] = None
            /\ st_error[s].kind = IF uploaded_file[s].name \notin AcceptedNames
                                  THEN "type" ELSE "size")
    /\ [][\A s \in Savers :
            (spc[s] = "idle" /\ spc'[s] # "idle" /\ Rejects(uploaded_file'[s]))
                => (disk' = disk /\ temp_files' = temp_files /\ uuid_count' = uuid_count)]_vars

\* process_file has rejected a.exe for its type while TEMP_DIR and
\* temp_files hold the file of an earlier upload
C28_Witness ==
    \E s \in Savers :
        /\ spc[s] = "done"
        /\ uploaded_file[s].name = <<"a", ".", "e", "x", "e">>
        /\ uploaded_file[s].value = MaxBytes
        /\ st_error[s].kind = "type"
        /\ temp_files # <<>>
        /\ \A p \in Keys(temp_files) : Exists(p)

\* ------------------------------------------ who takes scratch files away
\* the step is one of the script thread s
ScriptStep(s) == spc'[s] # spc[s]

\* C29  The upload and conversion path never reclaims a scratch file.  No
\* step of process_file, of the save_uploaded_file or of the
\* convert_to_markdown it calls takes a file out of TEMP_DIR or a key out of
\* temp_files; the conversion step changes neither, whether it gives
\* markdown or fails, and a failure comes back as None with a message, never
\* as an exception leaving process_file.  A file leaves the disk only by the
\* unlink of a sweep.
C29_UploadPathNeverReclaims ==
    /\ [](\A s \in Savers :
            spc[s] \in {"idle", "open", "write", "track", "returned", "convert", "done"})
    /\ [][\A s \in Savers : ScriptStep(s) =>
            /\ Files \subseteq DOMAIN disk'
            /\ Keys(temp_files) \subseteq Keys(temp_files')
            /\ spc[s] = "convert" =>
                  /\ disk' = disk
                  /\ temp_files' = temp_files
                  /\ spc'[s] = "done"
                  /\ sret'[s] = sret[s]]_vars
    /\ [][(\E p \in Files : Deletes(p)) =>
            \E c \in Cleaners : StepOf(c) /\ cpc[c] \in {"t_unlink", "u_unlink"}]_vars

\* a conversion has failed and process_file has reported it: the scratch
\* file is in TEMP_DIR and its path in temp_files as the save left them
C29_Witness ==
    \E s \in Savers :
        /\ spc[s] = "done"
        /\ st_error[s].kind = "convert"
        /\ sret[s] # None
        /\ Exists(sret[s])
        /\ sret[s] \in Keys(temp_files)
        /\ disk[sret[s]].content = Written(uploaded_file[s].value)

\* ------------------------------------------------- the preview's fences
\* the line starts with three backquotes
IsFenceLine(line) == Len(line) >= 3 /\ \A k \in 1..3 : line[k] = BQ
\* the number of fence lines before the i-th line
FencesBefore(ls, i) == Cardinality({j \in 1..(i - 1) : IsFenceLine(ls[j])})
\* the positions of the lines that are no fence lines, in order
PlainPositions(ls) ==
    SelectSeq([i \in 1..Len(ls) |-> i], LAMBDA i : ~IsFenceLine(ls[i]))
\* the lines shown by a sequence of calls, in order: each with the kind of
\* the call that showed it
RECURSIVE ShownLines(_)
ShownLines(out) ==
    IF out = <<>> THEN <<>>
    ELSE [k \in 1..Len(Head(out).lines) |->
             [kind |-> Head(out).kind, line |-> Head(out).lines[k]]]
         \o ShownLines(Tail(out))

\* C30  The fence state machine of render_markdown partitions its input.
\* When the call returns True, the lines it has passed to st.markdown and
\* st.code, taken in the order of the calls, are the lines of the text that do
\* not start with three backquotes, each once and in the order of the text:
\* through st.code when an odd number of fence lines comes before the line
\* (a block left open at the end included), through st.markdown otherwise.
\* No fence line is shown, and each call shows its lines joined by newlines.
C30_FencesPartitionInput ==
    (render.pc = "returned" /\ render.ret) =>
        LET ls == render.lines
            pos == PlainPositions(ls)
        IN  /\ \A k \in 1..Len(render.out) :
                  /\ render.out[k].kind \in {"markdown", "code"}
                  /\ render.out[k].body = JoinLines(render.out[k].lines)
            /\ ShownLines(render.out) =
                  [n \in 1..Len(pos) |->
                      [kind |-> IF FencesBefore(ls, pos[n]) % 2 = 1
                                THEN "code" ELSE "markdown",
                       line |-> ls[pos[n]]]]

\* render_markdown has returned True on a text of a line of two backquotes,
\* a fence with a language and a line left in the open block: the first went
\* to st.markdown, the last to st.code
C30_Witness ==
    /\ render.pc = "returned"
    /\ render.ret
    /\ render.lines = << <<BQ, BQ>>, <<BQ, BQ, BQ, " ", "p">>, <<"a">> >>
    /\ render.in_code_block
    /\ Len(render.out) = 2
    /\ render.out[1].kind = "markdown"
    /\ render.out[2] = [kind |-> "code", body |-> <<"a">>, language |-> <<"p">>,
                        lines |-> << <<"a">> >>]
====
